---- MODULE Spec2Model ----
(***************************************************************************)
(* A model of seed_images/generate.py: the orchestration loop of main(),   *)
(* the PNG encoder make_png() and the pattern generator                    *)
(* generate_artwork().                                                     *)
(*                                                                         *)
(* Spec      : main(), one step per statement group, with the outcome of   *)
(*             every file write and of every curl PUT chosen by the        *)
(*             environment.                                                *)
(* FairSpec  : Spec with weak fairness of the program's next step.         *)
(* SpecGen   : generate_artwork() on small images, one step per pixel,     *)
(*             called twice with the same arguments.                       *)
(* SpecRetro : generate_artwork("retro", ...) at 512x512, one step per     *)
(*             row.                                                        *)
(* SpecPng   : make_png(), one step per iteration of its outer loop.       *)
(***************************************************************************)
EXTENDS Integers, Sequences, FiniteSets, TLC

VARIABLES
    pc,         \* main: position in main()
    i,          \* main: index of the artwork the current loop is at
    m_pixels,   \* main: local `pixels`
    png_data,   \* main: local `png_data`
    files,      \* the local file system: path -> content
    events,     \* history of the externally visible operations of main
    stdout,     \* lines printed by main
    g_pc,       \* generate_artwork: position
    g_args,     \* generate_artwork: style, colors, w, h
    g_x,        \* generate_artwork: x of the inner loop
    g_y,        \* generate_artwork: y of the outer loop
    g_rgb,      \* generate_artwork: r, g, b as the style rule left them
    g_pixels,   \* generate_artwork: local `pixels`
    g_last,     \* generate_artwork: <<x, y>> of the pixel stored last
    g_call,     \* which invocation with these arguments this is (1 or 2)
    returned,   \* the buffers the invocations returned, in order
    hashSeed,   \* the interpreter's hash seed during this invocation
    mathSel,    \* which member of the family of float outcomes is in force
    spilled,    \* history: a rule left a channel below 0 or above 255
    eyeCells,   \* history (retro at 512x512): coarse cells stored in eye colour
    cellColours, \* history (retro at 512x512): colours stored in the other cells
    p_pc,       \* make_png: position
    p_args,     \* make_png: pixels, w, h
    p_y,        \* make_png: y of the outer loop
    p_ihdr,     \* make_png: local `ihdr`
    p_raw,      \* make_png: local `raw`
    p_out       \* make_png: the bytes returned

mainVars == <<pc, i, m_pixels, png_data, files, events, stdout>>

genVars == <<g_pc, g_args, g_x, g_y, g_rgb, g_pixels, g_last, g_call, returned,
             hashSeed, mathSel, spilled, eyeCells, cellColours>>

pngVars == <<p_pc, p_args, p_y, p_ihdr, p_raw, p_out>>

vars == <<mainVars, genVars, pngVars>>

(***************************************************************************)
(* Module constants of generate.py                                         *)
(***************************************************************************)
RGB(r, g, b) == <<r, g, b>>

Art(uuid, style, c1, c2, c3) ==
    [uuid |-> uuid, style |-> style, colors |-> <<c1, c2, c3>>]

ARTWORKS ==
    << Art("b0000001-0000-0000-0000-000000000001", "sunset",
           RGB(255,120,50), RGB(255,80,120), RGB(40,20,80)),
       Art("b0000001-0000-0000-0000-000000000002", "genesis",
           RGB(0,200,255), RGB(100,0,200), RGB(0,50,100)),
       Art("b0000001-0000-0000-0000-000000000003", "moscow",
           RGB(20,20,60), RGB(255,200,50), RGB(100,100,200)),
       Art("b0000001-0000-0000-0000-000000000004", "chaos",
           RGB(200,0,50), RGB(50,0,200), RGB(255,255,0)),
       Art("b0000001-0000-0000-0000-000000000005", "retro",
           RGB(0,200,0), RGB(200,0,200), RGB(50,50,50)),
       Art("b0000001-0000-0000-0000-000000000006", "cube",
           RGB(0,100,255), RGB(255,0,100), RGB(0,255,200)),
       Art("b0000001-0000-0000-0000-000000000007", "neural",
           RGB(150,0,255), RGB(0,255,150), RGB(255,150,0)),
       Art("b0000001-0000-0000-0000-000000000008", "algorithm",
           RGB(255,200,0), RGB(0,100,200), RGB(200,50,100)),
       Art("b0000001-0000-0000-0000-000000000009", "baikal",
           RGB(200,230,255), RGB(100,150,200), RGB(180,220,240)),
       Art("b0000001-0000-0000-0000-000000000010", "cosmic",
           RGB(80,0,120), RGB(200,100,255), RGB(0,50,100)) >>

NumArtworks == Len(ARTWORKS)

SIZE == 512

(***************************************************************************)
(* main()                                                                  *)
(***************************************************************************)

\* The value of a call whose result main only passes on: main never looks
\* inside the pixel buffer or the PNG bytes, so at 512x512 they are carried
\* as the call that produced them.  generate_artwork and make_png themselves
\* are modelled byte by byte further down.
Call(fn, args) == [fn |-> fn, args |-> args]

GenerateCall(style, colors, w, h) ==
    Call("generate_artwork", <<style, colors, w, h>>)

MakePngCall(pixels, w, h) == Call("make_png", <<pixels, w, h>>)

\* os.path.dirname(os.path.abspath(__file__))
out_dir == "/seed_images"

\* os.path.join(out_dir, f"{uuid}.png")
FilePath(uuid) == out_dir \o "/" \o uuid \o ".png"

\* line 244 with the object put at the root of the server
UploadUrl_NoBucket(uuid) == "http://192.168.1.54:9000/" \o uuid \o ".png"

\* f"http://192.168.1.54:9000/artworks/{uuid}.png"
UploadUrl(uuid) == "http://192.168.1.54:9000/artworks/" \o uuid \o ".png"

\* What `curl -w %{http_code}` leaves on stdout, stripped: a 2xx status, a
\* non-2xx status, or nothing at all when the client failed before writing it.
Statuses == {"200", "403", ""}

\* A path no file is stored under, and a file open() emptied before the write
\* failed.
Absent == Call("absent", <<>>)

Truncated == Call("truncated", <<>>)

\* A local of main that is not bound yet.
Unbound == Call("unbound", <<>>)

Paths == {FilePath(ARTWORKS[n].uuid) : n \in 1..NumArtworks}

\* One entry of the history: the operation, the artwork's index, the path
\* or URL it names, the data it produced, wrote or sent, and the status it
\* returned.
Event(op, k, target, data, status) ==
    [op |-> op, k |-> k, target |-> target, data |-> data, status |-> status]

\* Where the first loop goes after artwork k was saved: the next artwork, or,
\* after the last one, the statements behind the loop.
AfterSave_Interleaved(k) == [pc |-> "put", i |-> k]

AfterSave(k) ==
    IF k < NumArtworks THEN [pc |-> "generate", i |-> k + 1]
                       ELSE [pc |-> "begin_upload", i |-> 1]

\* Where the second loop goes after the PUT of artwork k returned `status`.
AfterPut_RetryOnFailure(k, status) ==
    IF status # "200" THEN [pc |-> "put", i |-> k]
    ELSE IF k < NumArtworks THEN [pc |-> "put", i |-> k + 1]
                            ELSE [pc |-> "finish", i |-> k]

AfterPut(k, status) ==
    IF k < NumArtworks THEN [pc |-> "put", i |-> k + 1]
                       ELSE [pc |-> "finish", i |-> k]

\* Where main goes when open() or f.write() raises: nothing catches it.
OnWriteError_Swallowed(k) == AfterSave(k)

OnWriteError(k) == [pc |-> "crashed", i |-> k]

MainInit ==
    /\ pc = "generate"
    /\ i = 1
    /\ m_pixels = Unbound
    /\ png_data = Unbound
    /\ files = [p \in Paths |-> Absent]
    /\ events = <<>>
    /\ stdout = <<>>

\* lines 232-233
Generate ==
    /\ pc = "generate"
    /\ LET a == ARTWORKS[i] IN
         /\ stdout' = Append(stdout, <<"Generating", a.style, a.uuid>>)
         /\ m_pixels' = GenerateCall(a.style, a.colors, SIZE, SIZE)
         /\ events' = Append(events, Event("generate", i, "", m_pixels', ""))
    /\ pc' = "encode"
    /\ UNCHANGED <<i, png_data, files>>
    /\ UNCHANGED <<genVars, pngVars>>

\* line 234
Encode ==
    /\ pc = "encode"
    /\ png_data' = MakePngCall(m_pixels, SIZE, SIZE)
    /\ events' = Append(events, Event("encode", i, "", png_data', ""))
    /\ pc' = "save"
    /\ UNCHANGED <<i, m_pixels, files, stdout>>
    /\ UNCHANGED <<genVars, pngVars>>

\* lines 236-239, open() and f.write() succeed
SaveOk ==
    /\ pc = "save"
    /\ LET filepath == FilePath(ARTWORKS[i].uuid)
           next == AfterSave(i) IN
         /\ files' = [files EXCEPT ![filepath] = png_data]
         /\ events' = Append(events, Event("write", i, filepath, png_data, ""))
         /\ stdout' = Append(stdout, <<"Saved", filepath, png_data>>)
         /\ pc' = next.pc
         /\ i' = next.i
    /\ UNCHANGED <<m_pixels, png_data>>
    /\ UNCHANGED <<genVars, pngVars>>

\* lines 236-238, open() or f.write() raises OSError: open() may have left
\* the file untouched, or have truncated it before the write failed.
SaveFail ==
    /\ pc = "save"
    /\ LET filepath == FilePath(ARTWORKS[i].uuid)
           next == OnWriteError(i) IN
         /\ \E left \in {files[filepath], Truncated} :
                files' = [files EXCEPT ![filepath] = left]
         /\ events' = Append(events, Event("write_failed", i, filepath, files'[filepath], ""))
         /\ pc' = next.pc
         /\ i' = next.i
    /\ UNCHANGED <<m_pixels, png_data, stdout>>
    /\ UNCHANGED <<genVars, pngVars>>

\* line 242
BeginUpload ==
    /\ pc = "begin_upload"
    /\ stdout' = Append(stdout, <<"Uploading to MinIO...">>)
    /\ pc' = "put"
    /\ UNCHANGED <<i, m_pixels, png_data, files, events>>
    /\ UNCHANGED <<genVars, pngVars>>

\* lines 243-254: curl reads the body from the file and its %{http_code} is
\* all that main keeps of the outcome.
Put ==
    /\ pc = "put"
    /\ LET a == ARTWORKS[i]
           filepath == FilePath(a.uuid)
           url == UploadUrl(a.uuid) IN
         \E status \in (IF files[filepath] = Absent THEN {""} ELSE Statuses) :
            LET next == AfterPut(i, status) IN
              /\ events' = Append(events,
                                  Event("put", i, url, files[filepath], status))
              /\ stdout' = Append(stdout, <<"HTTP", a.style, status>>)
              /\ pc' = next.pc
              /\ i' = next.i
    /\ UNCHANGED <<m_pixels, png_data, files>>
    /\ UNCHANGED <<genVars, pngVars>>

\* line 256
Done ==
    /\ pc = "finish"
    /\ stdout' = Append(stdout, <<"Done!">>)
    /\ pc' = "done"
    /\ UNCHANGED <<i, m_pixels, png_data, files, events>>
    /\ UNCHANGED <<genVars, pngVars>>

MainNext ==
    \/ Generate
    \/ Encode
    \/ SaveOk
    \/ SaveFail
    \/ BeginUpload
    \/ Put
    \/ Done

\* generate_artwork is not running.
GenIdle ==
    /\ g_pc = "idle"
    /\ g_args = [style |-> "", colors |-> <<>>, w |-> 0, h |-> 0]
    /\ g_x = 0
    /\ g_y = 0
    /\ g_rgb = <<0, 0, 0>>
    /\ g_pixels = <<>>
    /\ g_last = <<0 - 1, 0 - 1>>
    /\ g_call = 0
    /\ returned = <<>>
    /\ hashSeed = 0
    /\ mathSel = 0
    /\ spilled = FALSE
    /\ eyeCells = {}
    /\ cellColours = {}

\* main is not running.
MainIdle ==
    /\ pc = "idle"
    /\ i = 0
    /\ m_pixels = Unbound
    /\ png_data = Unbound
    /\ files = [p \in Paths |-> Absent]
    /\ events = <<>>
    /\ stdout = <<>>

\* make_png is not running
PngIdle ==
    /\ p_pc = "idle"
    /\ p_args = [pixels |-> <<>>, w |-> 0, h |-> 0]
    /\ p_y = 0
    /\ p_ihdr = <<>>
    /\ p_raw = <<>>
    /\ p_out = <<>>

Init == MainInit /\ GenIdle /\ PngIdle

Next == MainNext

Spec == Init /\ [][Next]_vars

\* main is one thread of control: whenever a statement can run, it runs.
FairSpec == Spec /\ WF_vars(Next)

(***************************************************************************)
(* Properties of main()                                                    *)
(***************************************************************************)
EventIdx == 1..Len(events)

OpsOf(op) == SelectSeq(events, LAMBDA e : e.op = op)

KsOf(op) == LET sel == OpsOf(op) IN [n \in 1..Len(sel) |-> sel[n].k]

\* <<1, 2, ..., n>>
UpTo(n) == [m \in 1..n |-> m]

FirstPass == SelectSeq(events, LAMBDA e : e.op \in {"generate", "encode", "write"})

AllWritten == \A k \in 1..NumArtworks : \E n \in EventIdx :
                  events[n].op = "write" /\ events[n].k = k

ExpectedPng(a) ==
    MakePngCall(GenerateCall(a.style, a.colors, SIZE, SIZE), SIZE, SIZE)

\* C1 as stated: for consecutive artworks k and k+1, the PUT of artwork k is
\* issued before the generation of artwork k+1 begins.
C1_PutBeforeNextGenerate ==
    \A n \in EventIdx :
        (events[n].op = "generate" /\ events[n].k > 1)
            => \E m \in 1..(n - 1) :
                   events[m].op = "put" /\ events[m].k = events[n].k - 1

\* C1 amended: the artworks are processed one at a time and in table order
\* in two passes: generate -> encode -> save for each artwork, the save of
\* artwork k preceding the generation of artwork k+1, and only after all ten
\* files are written the PUTs, one per artwork in table order; so no PUT is
\* issued (the first one included) before the last artwork was generated
\* and written.
C1_TwoPasses ==
    /\ LET first == FirstPass IN
         \A m \in 1..Len(first) :
            /\ first[m].k = ((m - 1) \div 3) + 1
            /\ first[m].op = <<"generate", "encode", "write">>[((m - 1) % 3) + 1]
    /\ \A n \in EventIdx :
          (events[n].op = "put" /\ \A m \in 1..(n - 1) : events[m].op # "put") =>
              \A k \in 1..NumArtworks : \E m \in 1..(n - 1) :
                  events[m].op = "write" /\ events[m].k = k
    /\ LET puts == KsOf("put") IN puts = UpTo(Len(puts))

\* The first PUT has been issued, and the second artwork was generated and
\* written before it.
C1_Witness ==
    /\ Len(OpsOf("put")) >= 1
    /\ \E n \in EventIdx : events[n].op = "put" /\ events[n].k = 1
          /\ \E m \in 1..(n - 1) : events[m].op = "write" /\ events[m].k = 2

\* C2: when all ten file writes succeeded, whatever the statuses, the PUTs
\* issued so far are one per artwork in table order (none repeated), at
\* "Done!" there are exactly ten of them, and "Done!" is reached.
C2_Safety ==
    AllWritten =>
        /\ LET puts == KsOf("put") IN
             /\ puts = UpTo(Len(puts))
             /\ Len(puts) <= NumArtworks
             /\ (pc = "done" => Len(puts) = NumArtworks)
        /\ (pc = "done") = (Len(stdout) > 0 /\ stdout[Len(stdout)] = <<"Done!">>)

C3_WriteFailureIsFatal ==
    \A n \in EventIdx :
        events[n].op = "write_failed" =>
            /\ n = Len(events)
            /\ pc = "crashed"
            /\ ~ ENABLED Next
            /\ Len(OpsOf("put")) = 0
            /\ \A m \in 1..Len(stdout) : stdout[m] # <<"Done!">>
            /\ KsOf("generate") = UpTo(events[n].k)
            /\ KsOf("write") = UpTo(events[n].k - 1)

\* The write of the third artwork failed after two artworks were saved.
C3_Witness ==
    /\ pc = "crashed"
    /\ i = 3
    /\ events[Len(events)].op = "write_failed"
    /\ Len(OpsOf("write")) = 2

\* C4: every PUT goes to "http://192.168.1.54:9000/artworks/{uuid}.png" for a
\* uuid of the table, its body is what the local file "{uuid}.png" of the
\* same uuid holds, and that file was written earlier in the run with the PNG
\* encoding of the pixels generated for that artwork.
C4_PutKeyedAndFedByIdentifier ==
    \A n \in EventIdx :
        events[n].op = "put" =>
            LET e == events[n]
                a == ARTWORKS[e.k] IN
              /\ e.target = "http://192.168.1.54:9000" \o "/artworks/" \o a.uuid \o ".png"
              /\ e.data = ExpectedPng(a)
              /\ \E m \in 1..(n - 1) :
                    /\ events[m].op = "write"
                    /\ events[m].k = e.k
                    /\ events[m].target = out_dir \o "/" \o a.uuid \o ".png"
                    /\ events[m].data = e.data
                    /\ \A l \in (m + 1)..(n - 1) :
                          events[l].target # events[m].target

\* The PUT of the fifth artwork was issued.
C4_Witness ==
    \E n \in EventIdx :
        /\ events[n].op = "put"
        /\ events[n].k = 5
        /\ events[n].target = "http://192.168.1.54:9000/artworks/b0000001-0000-0000-0000-000000000005.png"

(***************************************************************************)
(* lerp_color, clamp and the arithmetic they rest on                       *)
(***************************************************************************)

\* A float the code computes from integers by +, -, *, / alone is carried as
\* the exact fraction n/d, d > 0.
Rat(n, d) == <<n, d>>

RAdd(a, b) == <<a[1] * b[2] + b[1] * a[2], a[2] * b[2]>>

RSub(a, b) == <<a[1] * b[2] - b[1] * a[2], a[2] * b[2]>>

RMul(a, b) == <<a[1] * b[1], a[2] * b[2]>>

RLt(a, b) == a[1] * b[2] < b[1] * a[2]

RAbs(a) == <<IF a[1] < 0 THEN 0 - a[1] ELSE a[1], a[2]>>

\* int(v): truncation toward zero
int(a) == IF a[1] >= 0 THEN a[1] \div a[2] ELSE 0 - ((0 - a[1]) \div a[2])

Min(a, b) == IF a < b THEN a ELSE b

Max(a, b) == IF a > b THEN a ELSE b

\* lerp_color(c1, c2, t), line 45-46
lerp(a, b, t) == int(RAdd(Rat(a, 1), RMul(Rat(b - a, 1), t)))

lerp_color(c1, c2, t) ==
    << lerp(c1[1], c2[1], t), lerp(c1[2], c2[2], t), lerp(c1[3], c2[3], t) >>

\* clamp(v, lo=0, hi=255), line 48-49; every caller passes an int
clamp_Unclamped(v) == v

clamp(v) == Max(0, Min(255, v))

(***************************************************************************)
(* What generate_artwork takes from the interpreter and the float library  *)
(***************************************************************************)

\* hash() of a small non-negative int is the int itself, and hash() of a
\* tuple of ints is a fixed mixing of its elements' hashes: the interpreter's
\* per-process seed (PYTHONHASHSEED) enters str and bytes hashes only, and
\* every key generate_artwork hashes is an int or a tuple of two ints
\* (lines 93, 98, 103, 117, 199, 217).  The mixing itself is the
\* interpreter's; a fixed mixing stands for it.
hash_int(seed, n) == n

hash_tuple_Seeded(seed, a, b) == a * 7919 + b * 104729 + seed * 13

hash_tuple(seed, a, b) == a * 7919 + b * 104729

\* The results of math.sqrt, math.sin, math.cos, math.atan2 and ** 0.5 are
\* not fractions.  Each quantity the code derives from them is a fixed
\* function of the pixel, the same in every invocation; which function it is
\* is left open: mathSel picks it from a family, fixed when the run starts.
\* `slot` names the place in the code where the quantity is computed.
Pick(m, slot, x, y) == m + 2 * slot + 3 * x + 5 * y

\* a quantity the code keeps within [0, 1]
UnitSamples == << Rat(0, 1), Rat(1, 4), Rat(1, 2), Rat(3, 4), Rat(1, 1) >>

Unit(m, slot, x, y) == UnitSamples[(Pick(m, slot, x, y) % 5) + 1]

\* ref_y of "sunset": 1 - (fy - 0.65 + wave) / 0.35 for 0.65 < fy < 1 and
\* |wave| <= 0.03, which lies within [-3/35, 38/35]
WideSamples == << Rat(0 - 1, 16), Rat(0, 1), Rat(1, 2), Rat(1, 1), Rat(17, 16) >>

Wide(m, slot, x, y) == WideSamples[(Pick(m, slot, x, y) % 5) + 1]

\* the outcome of a comparison of such a quantity with a threshold
Cond(m, slot, x, y) == ((m + slot + x + 2 * y) % 2) = 1

(***************************************************************************)
(* The ten pixel rules of generate_artwork: r, g, b as the rule leaves     *)
(* them, before lines 222-224 clamp and store them.                        *)
(***************************************************************************)
fx(x, w) == Rat(x, w)

fy(y, h) == Rat(y, h)

\* lines 60-73
Sunset(colors, x, y, w, h, m) ==
    LET c1 == colors[1]
        c2 == colors[2]
        c3 == colors[3]
        base0 == lerp_color(c3, c1, fy(y, h))
        base1 == IF Cond(m, 1, x, y)                      \* sun_dist < 0.15
                 THEN lerp_color(base0, <<255, 220, 100>>, Unit(m, 2, x, y))
                 ELSE base0
        base2 == IF RLt(Rat(65, 100), fy(y, h))           \* fy > 0.65
                 THEN LET ref_y == Wide(m, 3, x, y)
                          ref_color == lerp_color(c3, c2, ref_y)
                      IN lerp_color(base1, ref_color, Rat(6, 10))
                 ELSE base1
    IN base2

GenesisShapes == <<1, 2, 3>>

RECURSIVE GenesisFold(_, _, _, _, _, _)
GenesisFold(rgb, k, colors, x, y, m) ==
    IF k > Len(GenesisShapes) THEN rgb
    ELSE LET next == IF Cond(m, 10 + k, x, y)             \* d < rad
                     THEN LET t == Unit(m, 20 + k, x, y)  \* 1.0 - d / rad
                              shape_c == lerp_color(colors[2], colors[1], t)
                          IN lerp_color(rgb, shape_c, RMul(t, Rat(8, 10)))
                     ELSE rgb
         IN GenesisFold(next, k + 1, colors, x, y, m)

\* lines 75-86
Genesis(colors, x, y, w, h, m) ==
    LET c1 == colors[1]
        c3 == colors[3]
        start == lerp_color(c3, c1, RAdd(RMul(fy(y, h), Rat(1, 2)),
                                         RMul(fx(x, w), Rat(1, 2))))
        shaped == GenesisFold(start, 1, colors, x, y, m)
    IN IF (x % 64 < 2) \/ (y % 64 < 2)
       THEN << Min(255, shaped[1] + 40), Min(255, shaped[2] + 40),
               Min(255, shaped[3] + 40) >>
       ELSE shaped

\* lines 88-105
Moscow(colors, x, y, w, h, seed) ==
    LET c1 == colors[1]
        c2 == colors[2]
        bx == (x \div 40) * 40
        building_h == 100 + (hash_int(seed, bx) % 250)
        city == IF y > (h - building_h) /\ x % 40 > 2 /\ x % 40 < 38
                THEN IF (x % 40) % 8 > 2 /\ (x % 40) % 8 < 6
                        /\ y % 12 > 2 /\ y % 12 < 8
                     THEN LET brightness == hash_tuple(seed, bx, y \div 12) % 3
                          IN IF brightness > 0
                             THEN lerp_color(<<30, 30, 50>>, c2,
                                             Rat(2 + brightness, 4))
                             ELSE <<30, 30, 50>>
                     ELSE <<30, 30, 50>>
                ELSE c1
    IN IF y < h - 100 /\ hash_tuple(seed, x \div 3, y \div 3) % 200 = 0
       THEN <<220, 220, 255>>
       ELSE city

\* lines 107-118
Chaos(colors, x, y, w, h, m, seed) ==
    LET c1 == colors[1]
        c2 == colors[2]
        c3 == colors[3]
        swirl == Unit(m, 30, x, y)                 \* sin(...) * 0.5 + 0.5
        rgb == IF RLt(Rat(1, 2), swirl)
               THEN lerp_color(c1, c2, RMul(RSub(swirl, Rat(1, 2)), Rat(2, 1)))
               ELSE lerp_color(c3, c1, RMul(swirl, Rat(2, 1)))
        noise == (hash_tuple(seed, x * 7, y * 13) % 30) - 15
    IN << clamp(rgb[1] + noise), clamp(rgb[2] + noise), clamp(rgb[3] + noise) >>

\* the checkerboard alone, as if it were painted after the sprite
Retro_BoardOnTop(colors, x, y) ==
    IF ((x \div 16) + (y \div 16)) % 2 = 0 THEN <<40, 40, 40>>
                                          ELSE <<50, 50, 50>>

\* lines 120-138
Retro(colors, x, y) ==
    LET c1 == colors[1]
        c2 == colors[2]
        px == x \div 16
        py == y \div 16
        grid == SIZE \div 16
        cx == grid \div 2
        cy == grid \div 2
        board == IF (px + py) % 2 = 0 THEN <<40, 40, 40>> ELSE <<50, 50, 50>>
        dx == IF px - cx < 0 THEN cx - px ELSE px - cx
        dy == IF py - cy < 0 THEN cy - py ELSE py - cy
        part == IF dy < 2 /\ dx < 3 THEN c1
                ELSE IF dy >= 2 /\ dy < 5 /\ dx < 3 THEN c2
                ELSE IF dy >= 5 /\ dx < 2 THEN <<100, 100, 200>>
                ELSE board
    IN IF dx < 4 /\ dy < 6
       THEN IF dy = 1 /\ dx = 1 THEN <<255, 255, 255>> ELSE part
       ELSE board

\* lines 140-157
Cube(colors, x, y, w, h) ==
    LET c1 == colors[1]
        c2 == colors[2]
        c3 == colors[3]
        dx == RSub(fx(x, w), Rat(1, 2))
        dy == RSub(fy(y, h), Rat(1, 2))
        back == lerp_color(c3, <<20, 20, 40>>, fy(y, h))
        top == IF RLt(RAbs(RAdd(dx, RMul(dy, Rat(1, 2)))), Rat(2, 10))
                  /\ RLt(Rat(0 - 3, 10), dy) /\ RLt(dy, Rat(0 - 5, 100))
               THEN lerp_color(c1, <<200, 200, 255>>,
                               RMul(RAdd(dy, Rat(3, 10)), Rat(4, 1)))
               ELSE back
        left == IF RLt(Rat(0 - 2, 10), dx) /\ RLt(dx, Rat(0, 1))
                   /\ RLt(Rat(0 - 5, 100), dy) /\ RLt(dy, Rat(25, 100))
                THEN lerp_color(c2, <<50, 0, 30>>, RMul(dy, Rat(10, 3)))
                ELSE top
        right == IF RLt(Rat(0, 1), dx) /\ RLt(dx, Rat(2, 10))
                    /\ RLt(Rat(0 - 5, 100), dy) /\ RLt(dy, Rat(25, 100))
                 THEN lerp_color(c1, c2, RMul(dy, Rat(10, 3)))
                 ELSE left
    IN right

\* range(5) x range(3 + layer % 3), in loop order
NeuralNodes ==
    << <<0,0>>, <<0,1>>, <<0,2>>,
       <<1,0>>, <<1,1>>, <<1,2>>, <<1,3>>,
       <<2,0>>, <<2,1>>, <<2,2>>, <<2,3>>, <<2,4>>,
       <<3,0>>, <<3,1>>, <<3,2>>,
       <<4,0>>, <<4,1>>, <<4,2>>, <<4,3>> >>

RECURSIVE NeuralFold(_, _, _, _, _, _)
NeuralFold(rgb, k, colors, x, y, m) ==
    IF k > Len(NeuralNodes) THEN rgb
    ELSE LET layer == NeuralNodes[k][1]
             near == Cond(m, 40 + k, x, y)                \* d < 0.04
             glow == near \/ Cond(m, 60 + k, x, y)        \* d < 0.08
             node_c == lerp_color(colors[1], colors[2], Rat(layer, 4))
             lit == IF near
                    THEN lerp_color(rgb, node_c, Unit(m, 80 + k, x, y))
                    ELSE rgb
             t == Unit(m, 100 + k, x, y)                  \* 1.0 - d / 0.08
             next == IF glow
                     THEN << clamp(lit[1] + int(RMul(t, Rat(30, 1)))),
                             clamp(lit[2] + int(RMul(t, Rat(20, 1)))),
                             clamp(lit[3] + int(RMul(t, Rat(40, 1)))) >>
                     ELSE lit
         \* r, g, b are evaluated here, node by node, as the loop does; TLC
         \* would otherwise nest the evaluation of all nineteen nodes.
         IN IF Len(next) = 3 THEN NeuralFold(next, k + 1, colors, x, y, m)
                             ELSE next

\* lines 159-178
Neural(colors, x, y, w, h, m) == NeuralFold(<<10, 10, 20>>, 1, colors, x, y, m)

\* lines 180-189
Algorithm(colors, x, y, w, h, m) ==
    LET golden == Unit(m, 121, x, y)
    IN IF Cond(m, 120, x, y)                              \* spiral > 0.5
       THEN lerp_color(colors[1], colors[2], golden)
       ELSE lerp_color(colors[3], colors[1], golden)

\* lines 191-202
Baikal(colors, x, y, w, h, m, seed) ==
    LET base0 == lerp_color(colors[2], colors[1], fy(y, h))
        base1 == IF Cond(m, 130, x, y)                    \* abs(crack) < 0.05
                 THEN lerp_color(base0, <<255, 255, 255>>, Rat(7, 10))
                 ELSE base0
        spot == hash_tuple(seed, x \div 20, y \div 20) % 100
    IN IF spot < 10 /\ RLt(fy(y, h), Rat(4, 10))
       THEN lerp_color(base1, <<240, 245, 255>>, Rat(3, 10))
       ELSE base1

CosmicClouds(colors) == << colors[2], colors[3], <<255, 100, 50>> >>

RECURSIVE CosmicFold(_, _, _, _, _, _)
CosmicFold(rgb, k, colors, x, y, m) ==
    IF k > 3 THEN rgb
    ELSE LET nc == CosmicClouds(colors)[k]
             next == IF Cond(m, 140 + k, x, y)            \* d < nr
                     THEN LET t == Unit(m, 150 + k, x, y) \* max(0, min(1, t + noise))
                          IN lerp_color(rgb, nc, RMul(t, Rat(7, 10)))
                     ELSE rgb
         IN CosmicFold(next, k + 1, colors, x, y, m)

\* lines 204-220
Cosmic(colors, x, y, w, h, m, seed) ==
    LET rgb == CosmicFold(colors[1], 1, colors, x, y, m)
        star_hash == hash_tuple(seed, x * 3, y * 7)
    IN IF star_hash % 300 = 0
       THEN LET brightness == 150 + (star_hash % 105)
            IN << clamp(rgb[1] + brightness), clamp(rgb[2] + brightness),
                  clamp(rgb[3] + brightness) >>
       ELSE rgb

Styles == {ARTWORKS[n].style : n \in 1..NumArtworks}

\* lines 60-220: the if/elif chain over `style`
StyleRule(style, colors, x, y, w, h, m, seed) ==
    CASE style = "sunset"    -> Sunset(colors, x, y, w, h, m)
      [] style = "genesis"   -> Genesis(colors, x, y, w, h, m)
      [] style = "moscow"    -> Moscow(colors, x, y, w, h, seed)
      [] style = "chaos"     -> Chaos(colors, x, y, w, h, m, seed)
      [] style = "retro"     -> Retro(colors, x, y)
      [] style = "cube"      -> Cube(colors, x, y, w, h)
      [] style = "neural"    -> Neural(colors, x, y, w, h, m)
      [] style = "algorithm" -> Algorithm(colors, x, y, w, h, m)
      [] style = "baikal"    -> Baikal(colors, x, y, w, h, m, seed)
      [] style = "cosmic"    -> Cosmic(colors, x, y, w, h, m, seed)

(***************************************************************************)
(* generate_artwork(style, colors, w, h), one step per pixel.              *)
(*                                                                         *)
(* SpecGen   : two invocations with the same arguments, for every style,   *)
(*             the table's palette of the style and an extreme one, and    *)
(*             small widths and heights, the whole buffer kept.            *)
(***************************************************************************)
MaxW == 3

MaxH == 2

MaxMath == 4

MaxSeed == 1

\* Heights: the small ones, and the smallest at which a row falls within
\* -0.05 < fy - 0.5 < 0 (y = 5 of h = 11), where the faces of "cube"
\* extrapolate beyond their end colours.
Heights == (1..MaxH) \cup {11}

TablePalette(style) ==
    ARTWORKS[CHOOSE n \in 1..NumArtworks : ARTWORKS[n].style = style].colors

ExtremePalette == << <<255, 255, 255>>, <<0, 0, 0>>, <<255, 0, 255>> >>

\* line 52
zeros(n) == [k \in 1..n |-> 0]

\* lines 222-224: pixels[idx], pixels[idx + 1], pixels[idx + 2]
Store(pixels, idx, rgb) ==
    [pixels EXCEPT ![idx + 1] = clamp(rgb[1]),
                   ![idx + 2] = clamp(rgb[2]),
                   ![idx + 3] = clamp(rgb[3])]

GenInit ==
    /\ g_pc = "call"
    /\ g_call = 1
    /\ \E style \in Styles, w \in 1..MaxW, h \in Heights :
          \E colors \in {TablePalette(style), ExtremePalette} :
             g_args = [style |-> style, colors |-> colors, w |-> w, h |-> h]
    /\ mathSel \in 0..MaxMath
    /\ g_x = 0
    /\ g_y = 0
    /\ g_rgb = <<0, 0, 0>>
    /\ g_pixels = <<>>
    /\ g_last = <<0 - 1, 0 - 1>>
    /\ returned = <<>>
    /\ hashSeed = 0
    /\ spilled = FALSE
    /\ eyeCells = {}
    /\ cellColours = {}

\* lines 51-53: a fresh buffer; the interpreter this invocation runs in has
\* whatever hash seed it was started with.
GenCall ==
    /\ g_pc = "call"
    /\ hashSeed' \in 0..MaxSeed
    /\ g_pixels' = zeros(g_args.w * g_args.h * 3)
    /\ g_x' = 0
    /\ g_y' = 0
    /\ g_last' = <<0 - 1, 0 - 1>>
    /\ g_pc' = IF g_args.w * g_args.h = 0 THEN "return" ELSE "loop"
    /\ UNCHANGED <<g_args, g_rgb, g_call, returned, mathSel, spilled,
                   eyeCells, cellColours>>
    /\ UNCHANGED <<mainVars, pngVars>>

\* lines 55-224, one iteration of the inner loop
GenPixel ==
    /\ g_pc = "loop"
    /\ \E rgb \in {StyleRule(g_args.style, g_args.colors, g_x, g_y,
                              g_args.w, g_args.h, mathSel, hashSeed)} :
       LET w == g_args.w
           h == g_args.h
           idx == (g_y * w + g_x) * 3
       IN /\ g_rgb' = rgb
          /\ g_pixels' = Store(g_pixels, idx, rgb)
          /\ g_last' = <<g_x, g_y>>
          /\ spilled' = (spilled \/ \E j \in 1..3 : rgb[j] < 0 \/ rgb[j] > 255)
          /\ IF g_x + 1 < w
             THEN g_x' = g_x + 1 /\ g_y' = g_y /\ g_pc' = "loop"
             ELSE IF g_y + 1 < h
                  THEN g_x' = 0 /\ g_y' = g_y + 1 /\ g_pc' = "loop"
                  ELSE g_x' = g_x /\ g_y' = g_y /\ g_pc' = "return"
    /\ UNCHANGED <<g_args, g_call, returned, hashSeed, mathSel, eyeCells,
                   cellColours>>
    /\ UNCHANGED <<mainVars, pngVars>>

\* line 226; the caller then invokes it once more with the same arguments
GenReturn ==
    /\ g_pc = "return"
    /\ returned' = Append(returned, [pixels |-> g_pixels, seed |-> hashSeed])
    /\ IF g_call = 1
       THEN g_call' = 2 /\ g_pc' = "call"
       ELSE g_call' = g_call /\ g_pc' = "end"
    /\ UNCHANGED <<g_args, g_x, g_y, g_rgb, g_pixels, g_last, hashSeed,
                   mathSel, spilled, eyeCells, cellColours>>
    /\ UNCHANGED <<mainVars, pngVars>>

GenNext ==
    \/ GenCall
    \/ GenPixel
    \/ GenReturn

SpecGenInit == MainIdle /\ GenInit /\ PngIdle

SpecGen == SpecGenInit /\ [][GenNext]_vars

(***************************************************************************)
(* SpecRetro : the call main makes for the "retro" artwork,                *)
(*             generate_artwork("retro", colors, SIZE, SIZE), one step per *)
(*             row of pixels.  Of the 786,432 entries of the buffer the    *)
(*             run keeps the row stored last, and as history the coarse    *)
(*             cells stored in the eye colour and the colours stored in    *)
(*             the other cells.                                            *)
(***************************************************************************)
EyeColour == <<255, 255, 255>>

RetroInit ==
    /\ g_pc = "call"
    /\ g_call = 1
    /\ g_args = [style |-> "retro", colors |-> TablePalette("retro"),
                 w |-> SIZE, h |-> SIZE]
    /\ mathSel = 0
    /\ g_x = 0
    /\ g_y = 0
    /\ g_rgb = <<0, 0, 0>>
    /\ g_pixels = <<>>
    /\ g_last = <<0 - 1, 0 - 1>>
    /\ returned = <<>>
    /\ hashSeed = 0
    /\ spilled = FALSE
    /\ eyeCells = {}
    /\ cellColours = {}

\* lines 51-53
RetroCall ==
    /\ g_pc = "call"
    /\ g_pixels' = zeros(g_args.w * 3)
    /\ g_x' = 0
    /\ g_y' = 0
    /\ g_pc' = "loop"
    /\ UNCHANGED <<g_args, g_rgb, g_last, g_call, returned, hashSeed, mathSel,
                   spilled, eyeCells, cellColours>>
    /\ UNCHANGED <<mainVars, pngVars>>

\* The pixel of row g_pixels at column x
PixelAt(row, x) == <<row[3 * x + 1], row[3 * x + 2], row[3 * x + 3]>>

\* lines 55-58, 120-138, 222-224: one iteration of the outer loop, that is
\* the inner loop over all x of row g_y
RetroRow ==
    /\ g_pc = "loop"
    /\ \E rule \in {[x \in 0..(g_args.w - 1) |->
                        StyleRule(g_args.style, g_args.colors, x, g_y,
                                  g_args.w, g_args.h, mathSel, hashSeed)]} :
       \E row \in {[n \in 1..(3 * g_args.w) |->
                        clamp(rule[(n - 1) \div 3][((n - 1) % 3) + 1])]} :
       LET w == g_args.w
           h == g_args.h
           eyes == {x \in 0..(w - 1) : PixelAt(row, x) = EyeColour}
       IN /\ g_rgb' = rule[w - 1]
          /\ g_pixels' = row
          /\ g_x' = w - 1
          /\ g_last' = <<w - 1, g_y>>
          /\ spilled' = (spilled \/ \E x \in 0..(w - 1), j \in 1..3 :
                                        rule[x][j] < 0 \/ rule[x][j] > 255)
          /\ eyeCells' = eyeCells \cup {<<x \div 16, g_y \div 16>> : x \in eyes}
          /\ cellColours' = cellColours \cup
                              {PixelAt(row, x) : x \in (0..(w - 1)) \ eyes}
          /\ IF g_y + 1 < h
             THEN g_y' = g_y + 1 /\ g_pc' = "loop"
             ELSE g_y' = g_y /\ g_pc' = "return"
    /\ UNCHANGED <<g_args, g_call, returned, hashSeed, mathSel>>
    /\ UNCHANGED <<mainVars, pngVars>>

\* line 226
RetroReturn ==
    /\ g_pc = "return"
    /\ g_pc' = "end"
    /\ UNCHANGED <<g_args, g_x, g_y, g_rgb, g_pixels, g_last, g_call, returned,
                   hashSeed, mathSel, spilled, eyeCells, cellColours>>
    /\ UNCHANGED <<mainVars, pngVars>>

RetroNext ==
    \/ RetroCall
    \/ RetroRow
    \/ RetroReturn

SpecRetroInit == MainIdle /\ RetroInit /\ PngIdle

SpecRetro == SpecRetroInit /\ [][RetroNext]_vars

(***************************************************************************)
(* Properties of generate_artwork                                          *)
(***************************************************************************)

\* C7: for each of the ten styles, the buffer generate_artwork returns has
\* exactly width * height * 3 entries and every entry is an integer in
\* [0, 255], whatever value the rule left in r, g, b.
C7_PixelBufferInvariant ==
    \A n \in 1..Len(returned) :
        /\ Len(returned[n].pixels) = g_args.w * g_args.h * 3
        /\ \A j \in 1..Len(returned[n].pixels) :
              returned[n].pixels[j] \in 0..255

\* A buffer was returned in a run in which a rule had left a channel below 0
\* or above 255.
C7_Witness ==
    /\ Len(returned) >= 1
    /\ spilled
    /\ \E j \in 1..Len(returned[1].pixels) : returned[1].pixels[j] = 255
    /\ \E j \in 1..Len(returned[1].pixels) : returned[1].pixels[j] = 0

BoardColours == { <<40, 40, 40>>, <<50, 50, 50>> }

LegsColour == <<100, 100, 200>>

Dist(a, b) == IF a < b THEN b - a ELSE a - b

\* C8 as stated: in the "retro" artwork exactly two cells of the coarse grid
\* are painted the eye colour, and every other cell carries a background,
\* head, body or legs colour.
C8_TwoEyeCells ==
    g_pc = "end" =>
        /\ Cardinality(eyeCells) = 2
        /\ cellColours \subseteq
               (BoardColours \cup {g_args.colors[1], g_args.colors[2], LegsColour})

\* C9: in the "retro" artwork every pixel of a coarse cell of the head, body
\* or legs region (the centre cell among them) has a sprite colour and not a
\* background colour, and every pixel of a coarse cell outside the 7x11-cell
\* box has the checkerboard colour of the parity of px + py.
C9_SpriteOverBoard ==
    g_last[2] >= 0 =>
        \A x \in 0..(g_args.w - 1) :
            LET px == x \div 16
                py == g_last[2] \div 16
                dx == Dist(px, 16)
                dy == Dist(py, 16)
                pixel == PixelAt(g_pixels, x)
            IN /\ ((dx < 3 /\ dy < 5) \/ (dx < 2 /\ dy = 5)) =>
                     /\ pixel \in {g_args.colors[1], g_args.colors[2],
                                   LegsColour, EyeColour}
                     /\ pixel \notin BoardColours
               /\ (dx >= 4 \/ dy >= 6) =>
                     pixel = IF (px + py) % 2 = 0 THEN <<40, 40, 40>>
                                                  ELSE <<50, 50, 50>>

\* A row through the centre cell was stored, the pixel at (263, 270) in the
\* head colour.
C9_Witness ==
    /\ g_last[2] = 270
    /\ PixelAt(g_pixels, 263) = <<0, 200, 0>>

(***************************************************************************)
(* struct.pack, zlib.crc32 and zlib.compress, on byte strings (sequences   *)
(* of 0..255)                                                              *)
(***************************************************************************)

\* struct.pack('>I', n)
PackU32(n) ==
    << (n \div 16777216) % 256, (n \div 65536) % 256, (n \div 256) % 256, n % 256 >>

\* struct.pack('>IIBBBBB', w, h, a, b, c, d, e)
PackIHDR(w, h, a, b, c, d, e) == PackU32(w) \o PackU32(h) \o <<a, b, c, d, e>>

\* a ^ b on non-negative ints
RECURSIVE Xor(_, _)
Xor(a, b) ==
    IF a = 0 THEN b
    ELSE IF b = 0 THEN a
    ELSE 2 * Xor(a \div 2, b \div 2) + ((a + b) % 2)

\* The loops over bytes below are written  CHOOSE r \in {F(d) : d \in {step}}
\* for F(step): the step is evaluated before the loop goes on, as Python
\* does, which keeps TLC from nesting the evaluation of the whole loop.

\* One bit of the CRC-32 shift register (polynomial 0xEDB88320), the
\* register held as its four bytes, most significant first.
CrcShift(c) ==
    LET shifted == << c[1] \div 2,
                      (c[2] \div 2) + 128 * (c[1] % 2),
                      (c[3] \div 2) + 128 * (c[2] % 2),
                      (c[4] \div 2) + 128 * (c[3] % 2) >>
    IN IF c[4] % 2 = 1
       THEN << Xor(shifted[1], 237), Xor(shifted[2], 184),
               Xor(shifted[3], 131), Xor(shifted[4], 32) >>
       ELSE shifted

RECURSIVE CrcShifts(_, _)
CrcShifts(c, k) ==
    IF k = 0 THEN c
    ELSE CHOOSE r \in {CrcShifts(d, k - 1) : d \in {CrcShift(c)}} : TRUE

\* zlib's table: the register after eight shifts of the byte n
CrcTable == [n \in 0..255 |-> CrcShifts(<<0, 0, 0, n>>, 8)] @@ <<>>

\* crc = table[(crc ^ byte) & 0xff] ^ (crc >> 8)
CrcByte(c, byte) ==
    LET t == CrcTable[Xor(c[4], byte)]
    IN << t[1], Xor(t[2], c[1]), Xor(t[3], c[2]), Xor(t[4], c[3]) >>

RECURSIVE CrcFold(_, _, _)
CrcFold(c, data, k) ==
    IF k > Len(data) THEN c
    ELSE CHOOSE r \in {CrcFold(d, data, k + 1) : d \in {CrcByte(c, data[k])}} : TRUE

\* zlib.crc32(data) & 0xffffffff, as the four bytes struct.pack('>I', .)
\* makes of it
Crc32(data) ==
    LET c == CrcFold(<<255, 255, 255, 255>>, data, 1)
    IN << 255 - c[1], 255 - c[2], 255 - c[3], 255 - c[4] >>

RECURSIVE AdlerFold(_, _, _)
AdlerFold(ab, data, k) ==
    IF k > Len(data) THEN ab
    ELSE CHOOSE r \in {AdlerFold(n, data, k + 1) :
                          n \in {<< (ab[1] + data[k]) % 65521,
                                    (ab[2] + ab[1] + data[k]) % 65521 >>}} : TRUE

\* the Adler-32 checksum that ends a zlib stream, most significant byte first
Adler32(data) ==
    LET ab == AdlerFold(<<1, 0>>, data, 1)
    IN << ab[2] \div 256, ab[2] % 256, ab[1] \div 256, ab[1] % 256 >>

\* zlib.compress(raw, 9): a zlib stream (RFC 1950) that inflates to the data.
\* Which deflate blocks the library chooses is its own affair and no caller
\* depends on it; the stream is taken to be the header of level 9, one
\* stored block (final, LEN, its complement NLEN, the bytes) and the
\* checksum.  The data stay far below the 65,535 bytes one stored block holds.
ZlibCompress(data) ==
    LET n == Len(data)
    IN <<120, 218>>
       \o <<1, n % 256, n \div 256, 255 - (n % 256), 255 - (n \div 256)>>
       \o data
       \o Adler32(data)

(***************************************************************************)
(* make_png(pixels, w, h)                                                  *)
(***************************************************************************)
IHDR == <<73, 72, 68, 82>>

IDAT == <<73, 68, 65, 84>>

IEND == <<73, 69, 78, 68>>

\* b'\x89PNG\r\n\x1a\n'
sig == <<137, 80, 78, 71, 13, 10, 26, 10>>

\* lines 27-29; a CRC taken over the data alone
chunk_CrcOverData(ctype, data) == PackU32(Len(data)) \o ctype \o data \o Crc32(data)

\* lines 27-29
chunk(ctype, data) ==
    LET c == ctype \o data IN PackU32(Len(data)) \o c \o Crc32(c)

\* pixels[a:b] for 0 <= a <= b: the elements that exist
Slice(pixels, a, b) == SubSeq(pixels, a + 1, Min(b, Len(pixels)))

\* lines 36-39 with the pixel index taken along x only
Scanline_SameRow(pixels, w, y) ==
    LET RECURSIVE Row(_)
        Row(x) == IF x >= w THEN <<>>
                  ELSE Slice(pixels, x * 3, x * 3 + 3) \o Row(x + 1)
    IN <<0>> \o Row(0)

\* lines 36-39: what one iteration of the outer loop appends to raw
Scanline(pixels, w, y) ==
    LET RECURSIVE Row(_)
        Row(x) == IF x >= w THEN <<>>
                  ELSE Slice(pixels, (y * w + x) * 3, (y * w + x) * 3 + 3)
                       \o Row(x + 1)
    IN <<0>> \o Row(0)

(***************************************************************************)
(* SpecPng: make_png on its own, one step per iteration of the outer loop, *)
(* the arguments drawn from a bounded family                               *)
(***************************************************************************)
MaxPngDim == 2

MaxStride == 2

\* the byte values the buffers are made of
ByteSamples == <<0, 1, 127, 128, 255>>

\* the buffer of n bytes that walks ByteSamples from b in steps of a
Buffer(n, a, b) ==
    [k \in 1..n |-> ByteSamples[((a * (k - 1) + b) % Len(ByteSamples)) + 1]]

\* the lengths tried with w and h: as the dimensions say, one byte short and
\* one byte long
BufferLengths(w, h) == {n \in {w * h * 3 - 1, w * h * 3, w * h * 3 + 1} : n >= 0}

PngInit ==
    /\ p_pc = "call"
    /\ \E w \in -1..MaxPngDim, h \in -1..MaxPngDim :
       \E n \in BufferLengths(w, h), a \in 0..MaxStride,
          b \in 0..(Len(ByteSamples) - 1) :
          p_args = [pixels |-> Buffer(n, a, b), w |-> w, h |-> h]
    /\ p_y = 0
    /\ p_ihdr = <<>>
    /\ p_raw = <<>>
    /\ p_out = <<>>

\* lines 31-34: the '>I' format takes 0 <= n < 2^32 only
PngCall ==
    /\ p_pc = "call"
    /\ p_args.w >= 0 /\ p_args.h >= 0
    /\ p_ihdr' = chunk(IHDR, PackIHDR(p_args.w, p_args.h, 8, 2, 0, 0, 0))
    /\ p_raw' = <<>>
    /\ p_y' = 0
    /\ p_pc' = "loop"
    /\ UNCHANGED <<p_args, p_out>>
    /\ UNCHANGED <<mainVars, genVars>>

\* line 32: struct.error leaves make_png
PngRaise ==
    /\ p_pc = "call"
    /\ p_args.w < 0 \/ p_args.h < 0
    /\ p_pc' = "raised"
    /\ UNCHANGED <<p_args, p_y, p_ihdr, p_raw, p_out>>
    /\ UNCHANGED <<mainVars, genVars>>

\* lines 35-39
PngRow ==
    /\ p_pc = "loop"
    /\ p_y < p_args.h
    /\ p_raw' = p_raw \o Scanline(p_args.pixels, p_args.w, p_y)
    /\ p_y' = p_y + 1
    /\ UNCHANGED <<p_pc, p_args, p_ihdr, p_out>>
    /\ UNCHANGED <<mainVars, genVars>>

\* lines 41-43
PngReturn ==
    /\ p_pc = "loop"
    /\ p_y >= p_args.h
    /\ LET idat == chunk(IDAT, ZlibCompress(p_raw))
           iend == chunk(IEND, <<>>)
       IN p_out' = sig \o p_ihdr \o idat \o iend
    /\ p_pc' = "returned"
    /\ UNCHANGED <<p_args, p_y, p_ihdr, p_raw>>
    /\ UNCHANGED <<mainVars, genVars>>

PngNext == PngCall \/ PngRaise \/ PngRow \/ PngReturn

SpecPngInit == MainIdle /\ GenIdle /\ PngInit

SpecPng == SpecPngInit /\ [][PngNext]_vars

(***************************************************************************)
(* A PNG reader, written from the file format and not from make_png        *)
(***************************************************************************)
U32(b) == b[1] * 16777216 + b[2] * 65536 + b[3] * 256 + b[4]

\* the chunks of s from position pos on, each cut by its own length field
RECURSIVE ReadChunks(_, _)
ReadChunks(s, pos) ==
    IF pos = Len(s) + 1 THEN [ok |-> TRUE, chunks |-> <<>>]
    ELSE IF pos + 11 > Len(s) THEN [ok |-> FALSE, chunks |-> <<>>]
    ELSE LET n == U32(SubSeq(s, pos, pos + 3))
         IN IF pos + 11 + n > Len(s) THEN [ok |-> FALSE, chunks |-> <<>>]
            ELSE LET rest == ReadChunks(s, pos + 12 + n)
                 IN [ok |-> rest.ok,
                     chunks |-> << [length |-> n,
                                    type |-> SubSeq(s, pos + 4, pos + 7),
                                    data |-> SubSeq(s, pos + 8, pos + 7 + n),
                                    crc |-> SubSeq(s, pos + 8 + n, pos + 11 + n)] >>
                                \o rest.chunks]

\* the bytes of a zlib stream made of one final stored block
Inflate(z) ==
    IF Len(z) < 11 THEN [ok |-> FALSE, data |-> <<>>]
    ELSE LET n == z[4] + 256 * z[5]
             data == SubSeq(z, 8, 7 + n)
         IN [ok |-> /\ z[1] % 16 = 8
                    /\ (z[1] * 256 + z[2]) % 31 = 0
                    /\ (z[2] \div 32) % 2 = 0
                    /\ z[3] = 1
                    /\ z[6] = 255 - z[4] /\ z[7] = 255 - z[5]
                    /\ Len(z) = 11 + n
                    /\ SubSeq(z, 8 + n, 11 + n) = Adler32(data),
             data |-> data]

\* h scanlines of 1 + 3w bytes, each with filter type 0, without the
\* filter bytes
RECURSIVE Unfilter(_, _, _, _)
Unfilter(data, w, h, y) ==
    IF y >= h THEN [ok |-> Len(data) = h * (1 + 3 * w), pixels |-> <<>>]
    ELSE IF Len(data) < (y + 1) * (1 + 3 * w) THEN [ok |-> FALSE, pixels |-> <<>>]
    ELSE LET rest == Unfilter(data, w, h, y + 1)
         IN [ok |-> data[y * (1 + 3 * w) + 1] = 0 /\ rest.ok,
             pixels |-> SubSeq(data, y * (1 + 3 * w) + 2, (y + 1) * (1 + 3 * w))
                        \o rest.pixels]

\* what a reader makes of a PNG file
Decode(s) ==
    LET failed == [ok |-> FALSE, w |-> 0, h |-> 0, depth |-> 0, colour |-> 0,
                   pixels |-> <<>>]
        r == ReadChunks(s, 9)
    IN IF Len(s) < 8 \/ SubSeq(s, 1, 8) # sig THEN failed
       ELSE IF ~ r.ok \/ Len(r.chunks) # 3 THEN failed
       ELSE IF \/ r.chunks[1].type # IHDR \/ r.chunks[1].length # 13
               \/ r.chunks[2].type # IDAT \/ r.chunks[3].type # IEND
               \/ \E k \in 1..3 :
                     r.chunks[k].crc # Crc32(r.chunks[k].type \o r.chunks[k].data)
            THEN failed
       ELSE LET hd == r.chunks[1].data
                w == U32(SubSeq(hd, 1, 4))
                h == U32(SubSeq(hd, 5, 8))
                z == Inflate(r.chunks[2].data)
            IN IF ~ z.ok \/ hd[11] # 0 \/ hd[12] # 0 \/ hd[13] # 0 THEN failed
               ELSE LET u == Unfilter(z.data, w, h, 0)
                    IN [ok |-> u.ok, w |-> w, h |-> h, depth |-> hd[9],
                        colour |-> hd[10], pixels |-> u.pixels]

(***************************************************************************)
(* Claims about make_png                                                   *)
(***************************************************************************)

\* C5: whatever buffer, width and height make_png is given, what it returns
\* is the 8-byte signature followed by exactly three chunks, IHDR, IDAT and
\* IEND in that order, the IEND empty, each chunk being a 4-byte big-endian
\* length equal to the length of its payload, the type tag, the payload and
\* the CRC-32 of tag and payload.
C5_SignatureAndThreeChunks ==
    p_pc = "returned" =>
        /\ Len(p_out) >= 8
        /\ SubSeq(p_out, 1, 8) = <<137, 80, 78, 71, 13, 10, 26, 10>>
        /\ LET r == ReadChunks(p_out, 9)
           IN /\ r.ok
              /\ Len(r.chunks) = 3
              /\ r.chunks[1].type = <<73, 72, 68, 82>>
              /\ r.chunks[2].type = <<73, 68, 65, 84>>
              /\ r.chunks[3].type = <<73, 69, 78, 68>>
              /\ r.chunks[3].data = <<>>
              /\ \A k \in 1..3 :
                    /\ r.chunks[k].length = Len(r.chunks[k].data)
                    /\ r.chunks[k].crc
                         = Crc32(r.chunks[k].type \o r.chunks[k].data)
              /\ Len(p_out) = 8 + 3 * 12 + Len(r.chunks[1].data)
                                + Len(r.chunks[2].data)

\* make_png has returned for a buffer one byte short of 2x2 pixels whose
\* bytes are not all alike
C5_Witness ==
    /\ p_pc = "returned"
    /\ p_args.w = 2 /\ p_args.h = 2
    /\ Len(p_args.pixels) = 11
    /\ p_args.pixels[1] # p_args.pixels[2]

\* C6: for w >= 1, h >= 1 and a buffer of w*h*3 bytes, reading back what
\* make_png returned gives width w, height h, bit depth 8, colour type 2
\* and the bytes of the buffer.
C6_RoundTrip ==
    ( /\ p_pc = "returned"
      /\ p_args.w >= 1 /\ p_args.h >= 1
      /\ Len(p_args.pixels) = p_args.w * p_args.h * 3 ) =>
        Decode(p_out) = [ok |-> TRUE, w |-> p_args.w, h |-> p_args.h,
                         depth |-> 8, colour |-> 2, pixels |-> p_args.pixels]

\* make_png has returned for a full 2x2 buffer whose two rows differ
C6_Witness ==
    /\ p_pc = "returned"
    /\ p_args.w = 2 /\ p_args.h = 2
    /\ Len(p_args.pixels) = 12
    /\ SubSeq(p_args.pixels, 1, 6) # SubSeq(p_args.pixels, 7, 12)
    /\ Decode(p_out).ok

====
